---- MODULE Spec2Model ----
(***************************************************************************)
(* Pizza ordering back end: the role guards (adminOnly, userOnly,         *)
(* isAuthenticated), the order routes and the admin user-management        *)
(* routes, as a state machine over the user store, the order store and     *)
(* the session store.  Every request is one atomic step: guard, handler    *)
(* body, response.  A handler is an operator from the stores and the       *)
(* request to its outcome; its action installs the outcome.  The cart of   *)
(* the front end (CartContext.jsx) is modelled beside it, over the         *)
(* provider's state and the browser's localStorage.                        *)
(***************************************************************************)
EXTENDS Integers, Sequences, FiniteSets, TLC

VARIABLES
    users,        \* User collection: user id -> document (DOMAIN = existing users)
    session,      \* session store: session id -> req.session.userId or Null
    orders,       \* Order collection: order id -> document (DOMAIN = existing orders)
    nextOrderId,  \* ids handed out so far + 1 (ObjectIds are never reused)
    res,          \* the response to the last request
    seclog,       \* logger.security entries written while handling the last request
    inflight,     \* checkout requests that are handled step by step: where each is
    cartItems,    \* front end: the cart the CartProvider holds
    localStorage  \* front end: the 'cartItems' entry of the browser's localStorage

vars == <<users, session, orders, nextOrderId, res, seclog, inflight, cartItems,
          localStorage>>

-----------------------------------------------------------------------------
(* Bounds of the model *)

MaxOrders == 2       \* orders ever created in the general specifications
MaxCapOrders == 6    \* orders ever created in the order-cap specification
MaxHistory == 2      \* status_history entries per order
MaxGuardOrders == 1   \* orders ever created in the specification of all routes
MaxRaceOrders == 5    \* orders in the store when the two checkouts arrive
MaxStatusOrders == 1  \* orders ever created in the specification of the order life
MaxCardOrders == 3     \* orders placed while cards are saved
MaxStoreOrders == 6    \* orders in the store when every order route is used
MaxCartLines == 2      \* lines of the cart
MaxQuantity == 2       \* quantity of a line of the cart

-----------------------------------------------------------------------------
(* Values *)

Null == "null"
Undefined == "undefined"

UserIds == {"u1", "u2", "u3"}
UnknownUser == "u9"                 \* a well-formed id no document has
SessionIds == {"s0", "s1", "s2", "s3"}

\* The checkout requests whose awaits are interleaved with each other
Requests == {"r1", "r2"}
Idle == [pc |-> "idle"]
Done == [pc |-> "done"]

\* A user id in a URL is a 24-digit hex string; "upper" is the same id spelled
\* with upper-case hex digits.  ObjectId.toString() yields the lower-case one.
UserPathIds == (UserIds \cup {UnknownUser}) \X {"lower", "upper"}

\* userId.toString()
IdToString(userId) == <<userId, "lower">>

\* Mongoose casts the string of a query to an ObjectId; hex case is not kept.
CastObjectId(pathId) == pathId[1]

DefaultBlockReason == "Blocked by admin"
BlockedAt == "date"                 \* new Date()

-----------------------------------------------------------------------------
(* Responses *)

Resp(route, by, status, kind) ==
    [route |-> route, by |-> by, status |-> status, kind |-> kind,
     userRole |-> Null, reason |-> Null, activeOrders |-> 0,
     orders |-> {}, errors |-> {}, param |-> Null, storeCalls |-> 0]

NoResponse == Resp("none", "none", 0, "none")

LogEntry(event, userId) == [event |-> event, userId |-> userId]

\* What handling one request yields: the response, the stores as the request
\* leaves them, and the security-log lines it wrote.
Out(r, us, ss, os, log) ==
    [res |-> r, users |-> us, session |-> ss, orders |-> os, log |-> log]

-----------------------------------------------------------------------------
(* Role guards: backend/middleware/admin.middleware.js *)

Pass == [pass |-> TRUE, status |-> 200, kind |-> "next", userRole |-> Null,
         log |-> <<>>]

Denial(status, kind, userRole, log) ==
    [pass |-> FALSE, status |-> status, kind |-> kind, userRole |-> userRole,
     log |-> log]

adminOnlyNoRoleCheck(us, ss, s) ==
    IF ss[s] = Null
    THEN Denial(401, "Unauthorized", Null,
                <<LogEntry("Unauthorized admin access attempt", Null)>>)
    ELSE IF ss[s] \notin DOMAIN us
    THEN Denial(401, "User not found", Null,
                <<LogEntry("Admin access attempt with invalid user ID", ss[s])>>)
    ELSE Pass

adminOnly(us, ss, s) ==
    IF ss[s] = Null
    THEN Denial(401, "Unauthorized", Null,
                <<LogEntry("Unauthorized admin access attempt", Null)>>)
    ELSE IF ss[s] \notin DOMAIN us
    THEN Denial(401, "User not found", Null,
                <<LogEntry("Admin access attempt with invalid user ID", ss[s])>>)
    ELSE IF us[ss[s]].role # "admin"
    THEN Denial(403, "Access denied", "customer",
                <<LogEntry("Non-admin user attempted to access admin route", ss[s])>>)
    ELSE Pass

userOnlyNoRoleCheck(us, ss, s) ==
    IF ss[s] = Null
    THEN Denial(401, "Unauthorized", Null,
                <<LogEntry("Unauthorized user access attempt", Null)>>)
    ELSE IF ss[s] \notin DOMAIN us
    THEN Denial(401, "User not found", Null,
                <<LogEntry("User access attempt with invalid user ID", ss[s])>>)
    ELSE Pass

userOnly(us, ss, s) ==
    IF ss[s] = Null
    THEN Denial(401, "Unauthorized", Null,
                <<LogEntry("Unauthorized user access attempt", Null)>>)
    ELSE IF ss[s] \notin DOMAIN us
    THEN Denial(401, "User not found", Null,
                <<LogEntry("User access attempt with invalid user ID", ss[s])>>)
    ELSE IF us[ss[s]].role = "admin"
    THEN Denial(403, "Access denied", "admin",
                <<LogEntry("Admin user attempted to access user-only route", ss[s])>>)
    ELSE Pass

\* The response a guard sends when it does not call next()
Denied(route, guard, g) ==
    [Resp(route, guard, g.status, g.kind) EXCEPT !.userRole = g.userRole]

\* A guard's denial leaves every store alone
Deny(route, guard, g, us, ss, os) ==
    Out(Denied(route, guard, g), us, ss, os, g.log)

-----------------------------------------------------------------------------
(* isAuthenticated: backend/middleware/auth.middleware.js *)

authDecisionNoBlockCheck(us, ss, s) ==
    IF ss[s] = Null THEN "nosession"
    ELSE IF ss[s] \notin DOMAIN us THEN "nouser"
    ELSE "next"

authDecision(us, ss, s) ==
    IF ss[s] = Null THEN "nosession"
    ELSE IF ss[s] \notin DOMAIN us THEN "nouser"
    ELSE IF us[ss[s]].is_blocked THEN "blocked"
    ELSE "next"

\* req.session.destroy()
Destroy(ss, s) == [ss EXCEPT ![s] = Null]

\* Any route mounted behind isAuthenticated alone (the profile routes); what
\* runs after next() is not part of this middleware.
isAuthenticated(us, ss, os, s) ==
    LET route == "isAuthenticated route"
        d == authDecision(us, ss, s)
    IN  CASE d = "nosession" ->
                Out(Resp(route, "isAuthenticated", 401, "Unauthorized"),
                    us, ss, os, <<>>)
          [] d = "nouser" ->
                Out(Resp(route, "isAuthenticated", 401, "User account not found"),
                    us, Destroy(ss, s), os, <<>>)
          [] d = "blocked" ->
                Out([Resp(route, "isAuthenticated", 403, "isBlocked")
                        EXCEPT !.reason = us[ss[s]].blocked_reason],
                    us, Destroy(ss, s), os,
                    <<LogEntry("Blocked user attempted to access protected route",
                               ss[s])>>)
          [] d = "next" ->
                Out(Resp(route, "next", 200, "next"), us, ss, os, <<>>)

-----------------------------------------------------------------------------
(* User management: backend/routes/admin.routes.js *)

\* The response of a handler body after `calls` store operations
Handled(route, status, kind, calls) ==
    [Resp(route, "handler", status, kind) EXCEPT !.storeCalls = calls]

\* body('reason').optional().trim().isLength({ min: 5, max: 500 })
ReasonInputs == {Undefined, "spam", "payment fraud"}
ValidReason(reason) == reason \in {Undefined, "payment fraud"}

blockDecisionNoAdminGuard(us, ss, s, id, reason) ==
    IF ~ValidReason(reason) THEN "validation"
    ELSE IF id = IdToString(ss[s]) THEN "self"
    ELSE IF CastObjectId(id) \notin DOMAIN us THEN "notfound"
    ELSE IF us[CastObjectId(id)].is_blocked THEN "already"
    ELSE "ok"

blockDecision(us, ss, s, id, reason) ==
    IF ~ValidReason(reason) THEN "validation"
    ELSE IF id = IdToString(ss[s]) THEN "self"
    ELSE IF CastObjectId(id) \notin DOMAIN us THEN "notfound"
    ELSE IF us[CastObjectId(id)].role = "admin" THEN "admin"
    ELSE IF us[CastObjectId(id)].is_blocked THEN "already"
    ELSE "ok"

\* user.is_blocked = true; ... ; await user.save()
Blocked(user, reason, adminId) ==
    [user EXCEPT !.is_blocked = TRUE,
                 !.blocked_reason = IF reason = Undefined THEN DefaultBlockReason
                                    ELSE reason,
                 !.blocked_at = BlockedAt,
                 !.blocked_by = adminId]

\* PATCH /api/admin/users/:id/block
blockUser(us, ss, os, s, id, reason) ==
    LET route == "PATCH /admin/users/:id/block"
        g == adminOnly(us, ss, s)
        d == blockDecision(us, ss, s, id, reason)
        t == CastObjectId(id)
    IN  IF ~g.pass THEN Deny(route, "adminOnly", g, us, ss, os)
        ELSE CASE d = "validation" ->
                    Out(Handled(route, 400, "errors", 0), us, ss, os, <<>>)
               [] d = "self" ->
                    Out(Handled(route, 400, "You cannot block yourself", 0),
                        us, ss, os, <<>>)
               [] d = "notfound" ->
                    Out(Handled(route, 404, "User not found", 1), us, ss, os, <<>>)
               [] d = "admin" ->
                    Out(Handled(route, 400, "Cannot block admin users", 1),
                        us, ss, os, <<>>)
               [] d = "already" ->
                    Out(Handled(route, 400, "User is already blocked", 1),
                        us, ss, os, <<>>)
               [] d = "ok" ->
                    Out(Handled(route, 200, "User blocked successfully", 2),
                        [us EXCEPT ![t] = Blocked(@, reason, ss[s])], ss, os,
                        <<LogEntry("User blocked by admin", t)>>)

unblockDecision(us, id) ==
    IF CastObjectId(id) \notin DOMAIN us THEN "notfound"
    ELSE IF ~us[CastObjectId(id)].is_blocked THEN "notblocked"
    ELSE "ok"

\* An unblock that clears the flag and keeps the reason
UnblockedKeepingReason(user) ==
    [user EXCEPT !.is_blocked = FALSE, !.blocked_at = Null, !.blocked_by = Null]

Unblocked(user) ==
    [user EXCEPT !.is_blocked = FALSE, !.blocked_reason = Null,
                 !.blocked_at = Null, !.blocked_by = Null]

\* PATCH /api/admin/users/:id/unblock
unblockUser(us, ss, os, s, id) ==
    LET route == "PATCH /admin/users/:id/unblock"
        g == adminOnly(us, ss, s)
        d == unblockDecision(us, id)
        t == CastObjectId(id)
    IN  IF ~g.pass THEN Deny(route, "adminOnly", g, us, ss, os)
        ELSE CASE d = "notfound" ->
                    Out(Handled(route, 404, "User not found", 1), us, ss, os, <<>>)
               [] d = "notblocked" ->
                    Out(Handled(route, 400, "User is not blocked", 1),
                        us, ss, os, <<>>)
               [] d = "ok" ->
                    Out(Handled(route, 200, "User unblocked successfully", 2),
                        [us EXCEPT ![t] = Unblocked(@)], ss, os,
                        <<LogEntry("User unblocked by admin", t)>>)

deleteDecisionNoAdminGuard(us, ss, s, id) ==
    IF id = IdToString(ss[s]) THEN "self"
    ELSE IF CastObjectId(id) \notin DOMAIN us THEN "notfound"
    ELSE "ok"

deleteDecision(us, ss, s, id) ==
    IF id = IdToString(ss[s]) THEN "self"
    ELSE IF CastObjectId(id) \notin DOMAIN us THEN "notfound"
    ELSE IF us[CastObjectId(id)].role = "admin" THEN "admin"
    ELSE "ok"

\* findByIdAndDelete(id)
Without(f, k) == [x \in DOMAIN f \ {k} |-> f[x]]

\* DELETE /api/admin/users/:id
deleteUser(us, ss, os, s, id) ==
    LET route == "DELETE /admin/users/:id"
        g == adminOnly(us, ss, s)
        d == deleteDecision(us, ss, s, id)
        t == CastObjectId(id)
    IN  IF ~g.pass THEN Deny(route, "adminOnly", g, us, ss, os)
        ELSE CASE d = "self" ->
                    Out(Handled(route, 400, "You cannot delete yourself", 0),
                        us, ss, os, <<>>)
               [] d = "notfound" ->
                    Out(Handled(route, 404, "User not found", 1), us, ss, os, <<>>)
               [] d = "admin" ->
                    Out(Handled(route, 400, "Cannot delete admin users", 1),
                        us, ss, os, <<>>)
               [] d = "ok" ->
                    Out(Handled(route, 200, "User deleted successfully", 2),
                        Without(us, t), ss, os,
                        <<LogEntry("User deleted by admin", t)>>)

\* body('role').optional().isIn(['customer', 'admin']); the other validators
\* (name length, e-mail format) accept every value drawn here.
ValidEditBody(b) == b.role \in {Undefined, "customer", "admin"}

\* User.findOne({ email, _id: { $ne: id } })
EmailInUse(us, email, except) ==
    \E o \in DOMAIN us \ {except} : us[o].email = email

editDecisionNoSelfGuard(us, ss, s, id, b) ==
    IF ~ValidEditBody(b) THEN "validation"
    ELSE IF CastObjectId(id) \notin DOMAIN us THEN "notfound"
    ELSE IF /\ b.email # Undefined
            /\ b.email # us[CastObjectId(id)].email
            /\ EmailInUse(us, b.email, CastObjectId(id)) THEN "emailInUse"
    ELSE "ok"

editDecision(us, ss, s, id, b) ==
    IF ~ValidEditBody(b) THEN "validation"
    ELSE IF id = IdToString(ss[s]) THEN "self"
    ELSE IF CastObjectId(id) \notin DOMAIN us THEN "notfound"
    ELSE IF /\ b.email # Undefined
            /\ b.email # us[CastObjectId(id)].email
            /\ EmailInUse(us, b.email, CastObjectId(id)) THEN "emailInUse"
    ELSE "ok"

\* { $set: updateFields }
Edited(user, b) ==
    [user EXCEPT
        !.full_name = IF b.full_name # Undefined THEN b.full_name ELSE @,
        !.role = IF b.role # Undefined THEN b.role ELSE @,
        !.is_verified = IF b.is_verified # Undefined THEN b.is_verified = "true" ELSE @,
        !.email = IF b.email # Undefined /\ b.email # user.email THEN b.email ELSE @]

\* PUT /api/admin/users/:id
editUser(us, ss, os, s, id, b) ==
    LET route == "PUT /admin/users/:id"
        g == adminOnly(us, ss, s)
        d == editDecision(us, ss, s, id, b)
        t == CastObjectId(id)
    IN  IF ~g.pass THEN Deny(route, "adminOnly", g, us, ss, os)
        ELSE CASE d = "validation" ->
                    Out(Handled(route, 400, "errors", 0), us, ss, os, <<>>)
               [] d = "self" ->
                    Out(Handled(route, 400,
                                "Use /api/admin/profile to edit your own profile", 0),
                        us, ss, os, <<>>)
               [] d = "notfound" ->
                    Out(Handled(route, 404, "User not found", 1), us, ss, os, <<>>)
               [] d = "emailInUse" ->
                    Out(Handled(route, 400, "Email already in use by another account", 2),
                        us, ss, os, <<>>)
               [] d = "ok" ->
                    Out(Handled(route, 200, "User updated successfully",
                                IF b.email # Undefined /\ b.email # us[t].email
                                THEN 3 ELSE 2),
                        [us EXCEPT ![t] = Edited(@, b)], ss, os, <<>>)

\* PUT /api/admin/profile
editProfile(us, ss, os, s, b) ==
    LET route == "PUT /admin/profile"
        g == adminOnly(us, ss, s)
        me == ss[s]
    IN  IF ~g.pass THEN Deny(route, "adminOnly", g, us, ss, os)
        ELSE IF b.email # Undefined /\ EmailInUse(us, b.email, me)
        THEN Out(Handled(route, 400, "Email already in use by another account", 1),
                 us, ss, os, <<>>)
        ELSE Out(Handled(route, 200, "Profile updated successfully",
                         IF b.email # Undefined THEN 2 ELSE 1),
                 [us EXCEPT ![me] =
                    [@ EXCEPT !.full_name = IF b.full_name # Undefined
                                            THEN b.full_name ELSE @,
                              !.email = IF b.email # Undefined THEN b.email ELSE @]],
                 ss, os, <<>>)

\* GET /api/admin/profile, GET /api/admin/users, GET /api/admin/users/:id
AdminUserGets == {"GET /admin/profile", "GET /admin/users", "GET /admin/users/:id"}

adminGetUsers(us, ss, os, s, route, id) ==
    LET g == adminOnly(us, ss, s)
    IN  IF ~g.pass THEN Deny(route, "adminOnly", g, us, ss, os)
        ELSE IF route = "GET /admin/users/:id" /\ CastObjectId(id) \notin DOMAIN us
        THEN Out(Handled(route, 404, "User not found", 1), us, ss, os, <<>>)
        ELSE Out(Handled(route, 200, "ok", 1), us, ss, os, <<>>)

-----------------------------------------------------------------------------
(* Price validation: backend/utils/priceValidation.js, as section 4.2 of   *)
(* the specification describes it.  Money is in cents.                     *)

\* The product catalog: the authoritative price and availability
Catalog ==
    [p \in {"p1", "p2"} |->
        IF p = "p1" THEN [price |-> 1000, available |-> TRUE]
        ELSE [price |-> 1200, available |-> FALSE]]

\* The fee policy for a delivery; a takeaway costs nothing
DeliveryFeePolicy == 200

\* The tolerance of the total comparison: 0.01
Epsilon == 1

Abs(x) == IF x < 0 THEN -x ELSE x

Item(id, price, quantity) == [id |-> id, price |-> price, quantity |-> quantity]

ItemError(item) ==
    IF item.id \notin DOMAIN Catalog \/ ~Catalog[item.id].available
    THEN "InvalidProduct"
    ELSE IF item.price # Catalog[item.id].price THEN "PriceMismatch"
    ELSE "ok"

RECURSIVE RecomputedSubtotal(_)
RecomputedSubtotal(items) ==
    IF items = <<>> THEN 0
    ELSE (IF Head(items).id \in DOMAIN Catalog
          THEN Catalog[Head(items).id].price * Head(items).quantity
          ELSE 0)
         + RecomputedSubtotal(Tail(items))

RecomputedFee(deliveryType) ==
    IF deliveryType = "takeaway" THEN 0 ELSE DeliveryFeePolicy

RecomputedTotal(b) == RecomputedSubtotal(b.items) + RecomputedFee(b.deliveryType)

validateOrder(b) ==
    LET errors ==
            ({ItemError(b.items[i]) : i \in DOMAIN b.items} \ {"ok"})
            \cup (IF Abs(b.total - RecomputedTotal(b)) > Epsilon
                  THEN {"TotalMismatch"} ELSE {})
    IN  [isValid |-> errors = {}, errors |-> errors]

-----------------------------------------------------------------------------
(* Orders: backend/routes/order.routes.js *)

Statuses ==
    {"confirmed", "preparing", "ready", "out_for_delivery", "delivered", "cancelled"}

\* status: { $nin: ['delivered', 'cancelled'] }
IsActive(order) == order.status \notin {"delivered", "cancelled"}

ActiveOrderLimit == 5

\* Order.countDocuments({ customer: userId, status: { $nin: [...] } })
ActiveOrdersCount(os, userId) ==
    Cardinality({o \in DOMAIN os : os[o].customer = userId /\ IsActive(os[o])})

\* mongoose.Types.ObjectId.isValid(pid): "old-1" is an id of the old catalog
IsValidObjectId(pid) == pid \in {"p1", "p2", "p9"}

HistoryEntry(status, note) == [status |-> status, note |-> note]

\* collection.insert: the new document gets a fresh id
Insert(os, id, doc) == [o \in DOMAIN os \cup {id} |-> IF o = id THEN doc ELSE os[o]]

\* The document with its order_number set
Numbered(doc, number) ==
    [f \in DOMAIN doc \cup {"order_number"} |->
        IF f = "order_number" THEN number ELSE doc[f]]

\* Clock ticks (of Date.now()) in a calendar day
TicksPerDay == 2

\* date.toISOString().slice(0, 10).replace(/-/g, '')
DayOf(now) == now \div TicksPerDay

\* `ORD-${dateStr}-${random}`, random = Math.floor(1000 + Math.random() * 9000)
CheckoutNumber(env) == <<"ORD-", DayOf(env.now), "-", env.random>>

\* `ORD${Date.now()}${orderCount + 1}`, orderCount = Order.countDocuments()
ManualNumber(os, env) == <<"ORD", env.now, Cardinality(DOMAIN os) + 1>>

\* new Order({...}) of the checkout route, with its first history entry
CheckoutOrder(userId, b) ==
    [customer |-> userId,
     items |-> [i \in DOMAIN b.items |->
                  [product |-> b.items[i].id,
                   quantity |-> b.items[i].quantity,
                   unit_price |-> b.items[i].price,
                   total_price |-> b.items[i].price * b.items[i].quantity]],
     subtotal |-> b.subtotal,
     delivery_fee |-> b.deliveryFee,
     total |-> b.total,
     status |-> "confirmed",
     status_history |-> <<HistoryEntry("confirmed", "Order created")>>]

postDecisionNoPriceCheck(us, ss, os, s, b, env) ==
    IF ActiveOrdersCount(os, ss[s]) >= ActiveOrderLimit THEN "orderLimitReached"
    ELSE IF \E i \in DOMAIN b.items : ~IsValidObjectId(b.items[i].id) THEN "staleCart"
    ELSE IF env.catalog = "down" THEN "error"
    ELSE IF b.promoCode # Undefined /\ env.promoAbused THEN "promoAbuse"
    ELSE "ok"

postDecisionValidatorErrorIgnored(us, ss, os, s, b, env) ==
    IF ActiveOrdersCount(os, ss[s]) >= ActiveOrderLimit THEN "orderLimitReached"
    ELSE IF \E i \in DOMAIN b.items : ~IsValidObjectId(b.items[i].id) THEN "staleCart"
    ELSE IF env.catalog = "up" /\ ~validateOrder(b).isValid THEN "validationFailed"
    ELSE IF b.promoCode # Undefined /\ env.promoAbused THEN "promoAbuse"
    ELSE "ok"

postDecisionNoLimit(us, ss, os, s, b, env) ==
    IF \E i \in DOMAIN b.items : ~IsValidObjectId(b.items[i].id) THEN "staleCart"
    ELSE IF env.catalog = "down" THEN "error"
    ELSE IF ~validateOrder(b).isValid THEN "validationFailed"
    ELSE IF b.promoCode # Undefined /\ env.promoAbused THEN "promoAbuse"
    ELSE "ok"

postDecisionLimitOffByOne(us, ss, os, s, b, env) ==
    IF ActiveOrdersCount(os, ss[s]) > ActiveOrderLimit THEN "orderLimitReached"
    ELSE IF \E i \in DOMAIN b.items : ~IsValidObjectId(b.items[i].id) THEN "staleCart"
    ELSE IF env.catalog = "down" THEN "error"
    ELSE IF ~validateOrder(b).isValid THEN "validationFailed"
    ELSE IF b.promoCode # Undefined /\ env.promoAbused THEN "promoAbuse"
    ELSE "ok"

\* The checks of the checkout handler, in the order it makes them.  A catalog
\* that cannot be reached makes validateOrder throw: the catch block answers.
postDecision(us, ss, os, s, b, env) ==
    IF ActiveOrdersCount(os, ss[s]) >= ActiveOrderLimit THEN "orderLimitReached"
    ELSE IF \E i \in DOMAIN b.items : ~IsValidObjectId(b.items[i].id) THEN "staleCart"
    ELSE IF env.catalog = "down" THEN "error"
    ELSE IF ~validateOrder(b).isValid THEN "validationFailed"
    ELSE IF b.promoCode # Undefined /\ env.promoAbused THEN "promoAbuse"
    ELSE "ok"

\* paymentInfo of the request body: { last4, brand, expiry, saveCard }
PaymentInfo(last4, saveCard) ==
    [given |-> TRUE, last4 |-> last4, saveCard |-> saveCard]

\* A request body without paymentInfo
NoPaymentInfo == [given |-> FALSE, last4 |-> Undefined, saveCard |-> FALSE]

\* user.savedCards.some(c => c.last4 === paymentInfo.last4)
cardExists(user, last4) ==
    \E i \in DOMAIN user.savedCards : user.savedCards[i].last4 = last4

\* The entry pushed to savedCards; the mock token is drawn at random
Card(info, env) == [last4 |-> info.last4, brand |-> "Visa", token |-> env.random]

\* user.savedCards.push(...) followed by user.save(), which appends
SavedCard(user, info, env) == [user EXCEPT !.savedCards = Append(@, Card(info, env))]

\* What follows newOrder.save(): the card step and the user lookup before
\* the answer.  A rejected lookup or save, or a user who is gone when the
\* card step reads user.savedCards, throws into the catch block.
cardDecision(us, userId, b, env) ==
    IF env.userStore = "down" THEN "error"
    ELSE IF ~b.paymentInfo.given THEN "none"
    ELSE IF ~b.paymentInfo.saveCard THEN "none"
    ELSE IF userId \notin DOMAIN us THEN "error"
    ELSE IF cardExists(us[userId], b.paymentInfo.last4) THEN "kept"
    ELSE "pushed"

\* POST /api/orders
postOrder(us, ss, os, nid, s, b, env) ==
    LET route == "POST /orders"
        g == userOnly(us, ss, s)
        d == postDecision(us, ss, os, s, b, env)
    IN  IF ~g.pass THEN Deny(route, "userOnly", g, us, ss, os)
        ELSE CASE d = "orderLimitReached" ->
                    Out([Handled(route, 400, "orderLimitReached", 1)
                            EXCEPT !.activeOrders = ActiveOrdersCount(os, ss[s])],
                        us, ss, os, <<>>)
               [] d = "staleCart" ->
                    Out(Handled(route, 400, "staleCart", 1), us, ss, os, <<>>)
               [] d = "error" ->
                    Out(Handled(route, 500, "Failed to place order", 1),
                        us, ss, os, <<>>)
               [] d = "validationFailed" ->
                    Out([Handled(route, 400, "validationFailed", 1)
                            EXCEPT !.errors = validateOrder(b).errors],
                        us, ss, os,
                        <<LogEntry("Order validation failed - possible tampering",
                                   ss[s])>>)
               [] d = "promoAbuse" ->
                    Out(Handled(route, 403, "promoAbuse", 1), us, ss, os,
                        <<LogEntry("Promo code abuse detected", ss[s])>>)
               [] d = "ok" ->
                    LET saved == Insert(os, nid,
                                        Numbered(CheckoutOrder(ss[s], b),
                                                 CheckoutNumber(env)))
                        c == cardDecision(us, ss[s], b, env)
                    IN  IF c = "error"
                        THEN Out(Handled(route, 500, "Failed to place order", 4),
                                 us, ss, saved, <<>>)
                        ELSE Out([Handled(route, 201, "Order placed successfully", 4)
                                     EXCEPT !.orders = {nid}],
                                 IF c = "pushed"
                                 THEN [us EXCEPT ![ss[s]] =
                                          SavedCard(@, b.paymentInfo, env)]
                                 ELSE us,
                                 ss, saved, <<>>)

\* GET /api/orders/mine
getMine(us, ss, os, s) ==
    LET route == "GET /orders/mine"
        g == userOnly(us, ss, s)
    IN  IF ~g.pass THEN Deny(route, "userOnly", g, us, ss, os)
        ELSE Out([Handled(route, 200, "orders", 1)
                     EXCEPT !.orders = {o \in DOMAIN os : os[o].customer = ss[s]}],
                 us, ss, os, <<>>)

getOrderAnyCustomer(us, ss, os, s, oid) ==
    LET route == "GET /orders/:id"
        g == userOnly(us, ss, s)
    IN  IF ~g.pass THEN Deny(route, "userOnly", g, us, ss, os)
        ELSE IF oid \notin DOMAIN os
        THEN Out([Handled(route, 404, "Order not found", 1) EXCEPT !.param = oid],
                 us, ss, os, <<>>)
        ELSE Out([Handled(route, 200, "order", 1)
                     EXCEPT !.orders = {oid}, !.param = oid],
                 us, ss, os, <<>>)

\* GET /api/orders/:id
getOrder(us, ss, os, s, oid) ==
    LET route == "GET /orders/:id"
        g == userOnly(us, ss, s)
    IN  IF ~g.pass THEN Deny(route, "userOnly", g, us, ss, os)
        ELSE IF ~(oid \in DOMAIN os /\ os[oid].customer = ss[s])
        THEN Out([Handled(route, 404, "Order not found", 1) EXCEPT !.param = oid],
                 us, ss, os, <<>>)
        ELSE Out([Handled(route, 200, "order", 1)
                     EXCEPT !.orders = {oid}, !.param = oid],
                 us, ss, os, <<>>)

\* GET /api/orders/admin/all, GET /api/orders/admin/stats, GET /api/orders/admin/:id
AdminOrderGets == {"GET /orders/admin/all", "GET /orders/admin/stats",
                   "GET /orders/admin/:id"}

adminGetOrders(us, ss, os, s, route, oid) ==
    LET g == adminOnly(us, ss, s)
    IN  IF ~g.pass THEN Deny(route, "adminOnly", g, us, ss, os)
        ELSE IF route = "GET /orders/admin/:id"
        THEN IF oid \notin DOMAIN os
             THEN Out(Handled(route, 404, "Order not found", 1), us, ss, os, <<>>)
             ELSE Out([Handled(route, 200, "order", 1) EXCEPT !.orders = {oid}],
                      us, ss, os, <<>>)
        ELSE Out([Handled(route, 200, "orders", 2) EXCEPT !.orders = DOMAIN os],
                 us, ss, os, <<>>)

statusDecisionNoStatusCheck(os, oid, status) ==
    IF oid \notin DOMAIN os THEN "notfound"
    ELSE "ok"

\* The checks of the status route, in the order it makes them
statusDecision(os, oid, status) ==
    IF status \notin Statuses THEN "invalid"
    ELSE IF oid \notin DOMAIN os THEN "notfound"
    ELSE "ok"

TransitionedRewritingTotal(order, status) ==
    [order EXCEPT !.status = status,
                  !.total = 0,
                  !.status_history = Append(@, HistoryEntry(status, "Status updated"))]

TransitionedReplacingHistory(order, status) ==
    [order EXCEPT !.status = status,
                  !.status_history = <<HistoryEntry(status, "Status updated")>>]

\* order.status = status; order.status_history.push({...})
Transitioned(order, status) ==
    [order EXCEPT !.status = status,
                  !.status_history = Append(@, HistoryEntry(status, "Status updated"))]

\* PATCH /api/orders/:id/status
patchStatus(us, ss, os, s, oid, status) ==
    LET route == "PATCH /orders/:id/status"
        g == adminOnly(us, ss, s)
        d == statusDecision(os, oid, status)
    IN  IF ~g.pass THEN Deny(route, "adminOnly", g, us, ss, os)
        ELSE CASE d = "invalid" ->
                    Out([Handled(route, 400, "Invalid status", 0) EXCEPT !.param = oid],
                        us, ss, os, <<>>)
               [] d = "notfound" ->
                    Out([Handled(route, 404, "Order not found", 1) EXCEPT !.param = oid],
                        us, ss, os, <<>>)
               [] d = "ok" ->
                    Out([Handled(route, 200, "Order status updated successfully", 2)
                            EXCEPT !.orders = {oid}],
                        us, ss, [os EXCEPT ![oid] = Transitioned(@, status)], <<>>)

deleteOrderNoLog(us, ss, os, s, oid) ==
    LET route == "DELETE /orders/admin/:id"
        g == adminOnly(us, ss, s)
    IN  IF ~g.pass THEN Deny(route, "adminOnly", g, us, ss, os)
        ELSE IF oid \notin DOMAIN os
        THEN Out(Handled(route, 404, "Order not found", 1), us, ss, os, <<>>)
        ELSE Out([Handled(route, 200, "Order deleted successfully", 2)
                     EXCEPT !.orders = {oid}],
                 us, ss, Without(os, oid), <<>>)

\* DELETE /api/orders/admin/:id
deleteOrder(us, ss, os, s, oid) ==
    LET route == "DELETE /orders/admin/:id"
        g == adminOnly(us, ss, s)
    IN  IF ~g.pass THEN Deny(route, "adminOnly", g, us, ss, os)
        ELSE IF oid \notin DOMAIN os
        THEN Out(Handled(route, 404, "Order not found", 1), us, ss, os, <<>>)
        ELSE Out([Handled(route, 200, "Order deleted successfully", 2)
                     EXCEPT !.orders = {oid}],
                 us, ss, Without(os, oid),
                 <<[event |-> "Order deleted by admin", userId |-> ss[s],
                    orderId |-> oid, customerId |-> os[oid].customer,
                    total |-> os[oid].total, status |-> os[oid].status]>>)

\* Order.create({...}) of the manual-entry route: the items as submitted, the
\* status of the body ('confirmed' when it gives none)
ManualOrder(b) ==
    LET status == IF b.status = Undefined THEN "confirmed" ELSE b.status
    IN  [customer |-> b.customerId,
         items |-> b.items,
         subtotal |-> b.subtotal,
         delivery_fee |-> b.deliveryFee,
         total |-> b.total,
         status |-> status,
         status_history |-> <<HistoryEntry(status, "Order created manually by admin")>>]

createDecision(us, os, b, env) ==
    IF b.customerId = Undefined \/ b.items = <<>> \/ b.total = 0 THEN "missing"
    ELSE IF b.customerId \notin DOMAIN us THEN "notfound"
    ELSE IF \E i \in DOMAIN b.items : ~IsValidObjectId(b.items[i].id) THEN "invalidId"
    ELSE IF env.catalog = "down" THEN "error"
    ELSE IF ~validateOrder(b).isValid THEN "validationFailed"
    ELSE "ok"

\* POST /api/orders/admin/create
adminCreateOrder(us, ss, os, nid, s, b, env) ==
    LET route == "POST /orders/admin/create"
        g == adminOnly(us, ss, s)
        d == createDecision(us, os, b, env)
    IN  IF ~g.pass THEN Deny(route, "adminOnly", g, us, ss, os)
        ELSE CASE d = "missing" ->
                    Out(Handled(route, 400, "Missing required fields", 0),
                        us, ss, os, <<>>)
               [] d = "notfound" ->
                    Out(Handled(route, 404, "Customer not found", 1), us, ss, os, <<>>)
               [] d = "invalidId" ->
                    Out(Handled(route, 400, "Invalid product ID", 1), us, ss, os, <<>>)
               [] d = "error" ->
                    Out(Handled(route, 500, "Failed to create order", 1),
                        us, ss, os, <<>>)
               [] d = "validationFailed" ->
                    Out(Handled(route, 400, "Order validation failed", 1), us, ss, os,
                        <<LogEntry("Admin order creation validation failed", ss[s])>>)
               [] d = "ok" ->
                    Out([Handled(route, 201, "Order created successfully", 3)
                            EXCEPT !.orders = {nid}],
                        us, ss,
                        Insert(os, nid, Numbered(ManualOrder(b), ManualNumber(os, env))),
                        <<>>)

-----------------------------------------------------------------------------
(* Actions: one request, handled from guard to response *)

\* The stores and the response become what the handler's outcome says
Install(out) ==
    /\ users' = out.users
    /\ session' = out.session
    /\ orders' = out.orders
    /\ res' = out.res
    /\ seclog' = out.log
    /\ UNCHANGED <<inflight, cartItems, localStorage>>

AuthenticatedRequest(s) ==
    /\ Install(isAuthenticated(users, session, orders, s))
    /\ UNCHANGED nextOrderId

BlockUser(s, id, reason) ==
    /\ Install(blockUser(users, session, orders, s, id, reason))
    /\ UNCHANGED nextOrderId

UnblockUser(s, id) ==
    /\ Install(unblockUser(users, session, orders, s, id))
    /\ UNCHANGED nextOrderId

DeleteUser(s, id) ==
    /\ Install(deleteUser(users, session, orders, s, id))
    /\ UNCHANGED nextOrderId

EditUser(s, id, b) ==
    /\ Install(editUser(users, session, orders, s, id, b))
    /\ UNCHANGED nextOrderId

EditProfile(s, b) ==
    /\ Install(editProfile(users, session, orders, s, b))
    /\ UNCHANGED nextOrderId

AdminGetUsers(s, route, id) ==
    /\ Install(adminGetUsers(users, session, orders, s, route, id))
    /\ UNCHANGED nextOrderId

\* A request that creates an order takes the next id; `max` bounds the orders
\* ever created.
InstallCreating(out, max) ==
    /\ Install(out)
    /\ IF DOMAIN out.orders = DOMAIN orders
       THEN UNCHANGED nextOrderId
       ELSE /\ nextOrderId <= max
            /\ nextOrderId' = nextOrderId + 1

PostOrder(s, b, env, max) ==
    InstallCreating(postOrder(users, session, orders, nextOrderId, s, b, env), max)

AdminCreateOrder(s, b, env, max) ==
    InstallCreating(adminCreateOrder(users, session, orders, nextOrderId, s, b, env),
                    max)

GetMine(s) ==
    /\ Install(getMine(users, session, orders, s))
    /\ UNCHANGED nextOrderId

GetOrder(s, oid) ==
    /\ Install(getOrder(users, session, orders, s, oid))
    /\ UNCHANGED nextOrderId

AdminGetOrders(s, route, oid) ==
    /\ Install(adminGetOrders(users, session, orders, s, route, oid))
    /\ UNCHANGED nextOrderId

\* `max` bounds the length of a status history
PatchStatus(s, oid, status, max) ==
    LET out == patchStatus(users, session, orders, s, oid, status)
    IN  /\ \A o \in DOMAIN out.orders : Len(out.orders[o].status_history) <= max
        /\ Install(out)
        /\ UNCHANGED nextOrderId

DeleteOrder(s, oid) ==
    /\ Install(deleteOrder(users, session, orders, s, oid))
    /\ UNCHANGED nextOrderId

\* POST /api/orders up to its first await on the order store: the guard and
\* the count of active orders.  A request that is denied or over the limit is
\* answered here; any other goes on with the count it has read.
BeginCheckout(r, s, b, env) ==
    LET out == postOrder(users, session, orders, nextOrderId, s, b, env)
    IN  /\ inflight[r] = Idle
        /\ IF out.res.by # "handler" \/ out.res.kind = "orderLimitReached"
           THEN /\ users' = out.users
                /\ session' = out.session
                /\ orders' = out.orders
                /\ res' = out.res
                /\ seclog' = out.log
                /\ inflight' = [inflight EXCEPT ![r] = Done]
           ELSE /\ inflight' = [inflight EXCEPT ![r] =
                                   [pc |-> "counted", s |-> s, b |-> b, env |-> env,
                                    seen |-> orders]]
                /\ UNCHANGED <<users, session, orders, res, seclog>>
        /\ UNCHANGED <<nextOrderId, cartItems, localStorage>>

\* The rest of POST /api/orders: the checks after the count, decided on the
\* count read before, and newOrder.save() into the store as it is now.
CompleteCheckout(r) ==
    LET q == inflight[r]
        out == postOrder(users, session, q.seen, nextOrderId, q.s, q.b, q.env)
        saved == nextOrderId \in DOMAIN out.orders
    IN  /\ inflight[r].pc = "counted"
        /\ orders' = IF saved
                      THEN Insert(orders, nextOrderId, out.orders[nextOrderId])
                      ELSE orders
        /\ nextOrderId' = IF saved THEN nextOrderId + 1 ELSE nextOrderId
        /\ res' = out.res
        /\ seclog' = out.log
        /\ inflight' = [inflight EXCEPT ![r] = Done]
        /\ users' = out.users
        /\ UNCHANGED <<session, cartItems, localStorage>>

-----------------------------------------------------------------------------
(* The cart of the front end (CartContext.jsx): the provider's state      *)
(* cartItems and the 'cartItems' entry of localStorage.  A product id is  *)
(* a JavaScript value: undefined, a number or a string, the string as its *)
(* characters.  The strings of the model are over hexadecimal digits.     *)

JsUndefined == [t |-> "undefined", v |-> <<>>]
JsString(chars) == [t |-> "string", v |-> chars]
JsNumber(digits) == [t |-> "number", v |-> digits]

Digits == {"0", "1", "2", "3", "4", "5", "6", "7", "8", "9"}
HexChars == Digits \cup {"a", "b", "c", "d", "e", "f", "A", "B", "C", "D", "E", "F"}

\* The value is truthy: not undefined, not '', not 0
Truthy(x) ==
    CASE x.t = "undefined" -> FALSE
      [] x.t = "string" -> x.v # <<>>
      [] x.t = "number" -> x.v # <<"0">>

\* Number(string) is a number for a string over hexadecimal digits: decimal
\* digits (none included), decimal digits with an exponent, a binary literal
IsNumericLiteral(cs) ==
    \/ \A i \in DOMAIN cs : cs[i] \in Digits
    \/ \E k \in 2 .. (Len(cs) - 1) :
          /\ cs[k] \in {"e", "E"}
          /\ \A i \in DOMAIN cs \ {k} : cs[i] \in Digits
    \/ /\ Len(cs) >= 3
       /\ cs[1] = "0"
       /\ cs[2] \in {"b", "B"}
       /\ \A i \in 3 .. Len(cs) : cs[i] \in {"0", "1"}

\* The global isNaN(value): Number(value) is NaN
isNaN(x) ==
    CASE x.t = "undefined" -> TRUE
      [] x.t = "number" -> FALSE
      [] x.t = "string" -> ~IsNumericLiteral(x.v)

\* /^[a-f\d]{24}$/i on a string
isValidObjectId(id) ==
    /\ Truthy(id)
    /\ id.t = "string"
    /\ Len(id.v) = 24
    /\ \A i \in DOMAIN id.v : id.v[i] \in HexChars

\* item._id || item.id
ProductIdOf(item) == IF Truthy(item._id) THEN item._id ELSE item.id

isValidCartItem(item) ==
    Truthy(ProductIdOf(item)) /\ isValidObjectId(ProductIdOf(item))

\* A cart item or a product: an absent property reads as undefined
ItemKeys == {"_id", "id", "selectedSize", "selectedCrust", "quantity"}

CartItem(_id, id, size, crust, quantity) ==
    [_id |-> _id, id |-> id, selectedSize |-> size, selectedCrust |-> crust,
     quantity |-> quantity]

\* The property of this key is undefined (a quantity is a number or 0 for
\* a product, which has none)
IsUndefinedProperty(item, k) ==
    IF k \in {"_id", "id"} THEN item[k] = JsUndefined
    ELSE IF k = "quantity" THEN FALSE
    ELSE item[k] = Undefined

\* JSON.stringify of the array: a property whose value is undefined is left out
stringify(items) ==
    [i \in DOMAIN items |->
        [k \in {key \in ItemKeys : ~IsUndefinedProperty(items[i], key)} |->
            items[i][k]]]

\* JSON.parse of the text: an absent property reads as undefined
parse(json) ==
    [i \in DOMAIN json |->
        [k \in ItemKeys |->
            IF k \in DOMAIN json[i] THEN json[i][k]
            ELSE IF k \in {"_id", "id"} THEN JsUndefined
            ELSE IF k = "quantity" THEN 0
            ELSE Undefined]]

\* localStorage.getItem('cartItems'): null, or the text stored
NoStoredCart == [present |-> FALSE, wellFormed |-> TRUE, json |-> <<>>]
Stored(json) == [present |-> TRUE, wellFormed |-> TRUE, json |-> json]
MalformedCart == [present |-> TRUE, wellFormed |-> FALSE, json |-> <<>>]

hasStaleData(parsed) ==
    \E i \in DOMAIN parsed :
        LET productId == ProductIdOf(parsed[i])
        IN  \/ ~Truthy(productId)
            \/ productId.t = "number"
            \/ ~isNaN(productId)
            \/ ~isValidObjectId(productId)

\* useState initialiser: the cart of the provider after a page load
hydrate(saved) ==
    IF ~saved.present THEN <<>>
    ELSE IF ~saved.wellFormed THEN <<>>
    ELSE IF hasStaleData(parse(saved.json)) THEN <<>>
    ELSE parse(saved.json)

\* The persist effect, run to its fixed point: the items that are not valid
\* are dropped from the state, the valid ones are written to localStorage
validItems(items) == SelectSeq(items, isValidCartItem)

SameLine(item, id, size, crust) ==
    item.id = id /\ item.selectedSize = size /\ item.selectedCrust = crust

addToCart(prevItems, product) ==
    IF ~isValidCartItem(product) THEN prevItems
    ELSE IF \E i \in DOMAIN prevItems :
                SameLine(prevItems[i], product.id, product.selectedSize,
                         product.selectedCrust)
         THEN [i \in DOMAIN prevItems |->
                 IF SameLine(prevItems[i], product.id, product.selectedSize,
                             product.selectedCrust)
                 THEN [prevItems[i] EXCEPT !.quantity = @ + 1]
                 ELSE prevItems[i]]
         ELSE Append(prevItems, [product EXCEPT !.quantity = 1])

removeFromCart(prevItems, id, size, crust) ==
    SelectSeq(prevItems, LAMBDA item : ~SameLine(item, id, size, crust))

updateQuantity(prevItems, id, size, crust, delta) ==
    [i \in DOMAIN prevItems |->
        IF SameLine(prevItems[i], id, size, crust)
        THEN IF prevItems[i].quantity + delta > 0
             THEN [prevItems[i] EXCEPT !.quantity = @ + delta]
             ELSE prevItems[i]
        ELSE prevItems[i]]

\* setCartItems followed by the persist effect
Render(items) ==
    /\ cartItems' = validItems(items)
    /\ localStorage' = Stored(stringify(validItems(items)))
    /\ UNCHANGED <<users, session, orders, nextOrderId, res, seclog, inflight>>

AddToCart(product) ==
    /\ Len(addToCart(cartItems, product)) <= MaxCartLines
    /\ \A i \in DOMAIN addToCart(cartItems, product) :
          addToCart(cartItems, product)[i].quantity <= MaxQuantity
    /\ Render(addToCart(cartItems, product))

RemoveFromCart(id, size, crust) == Render(removeFromCart(cartItems, id, size, crust))

UpdateQuantity(id, size, crust, delta) ==
    /\ \A i \in DOMAIN cartItems : cartItems[i].quantity + delta <= MaxQuantity
    /\ Render(updateQuantity(cartItems, id, size, crust, delta))

ClearCart == Render(<<>>)

\* A page load: the provider is built anew from localStorage
Reload == Render(hydrate(localStorage))

-----------------------------------------------------------------------------
(* Initial states *)

User(role, email) ==
    [role |-> role, email |-> email, full_name |-> "name", is_verified |-> TRUE,
     is_blocked |-> FALSE, blocked_reason |-> Null, blocked_at |-> Null,
     blocked_by |-> Null, savedCards |-> <<>>]

\* Every session but s0 was opened by a login of the user of the same number.
InitSession ==
    [s \in SessionIds |->
        CASE s = "s0" -> Null
          [] s = "s1" -> "u1"
          [] s = "s2" -> "u2"
          [] s = "s3" -> "u3"]

InitWith(us) ==
    /\ users = us
    /\ session = InitSession
    /\ orders = <<>>
    /\ nextOrderId = 1
    /\ res = NoResponse
    /\ seclog = <<>>
    /\ inflight = [r \in Requests |-> Idle]
    /\ cartItems = <<>>
    /\ localStorage = NoStoredCart

-----------------------------------------------------------------------------
(* User management and session revocation.  One admin and one customer    *)
(* exist; session s3 belongs to an account that was deleted.              *)

EditBody(full_name, email, role, is_verified) ==
    [full_name |-> full_name, email |-> email, role |-> role,
     is_verified |-> is_verified]

InitTwoUsers ==
    InitWith([u \in {"u1", "u2"} |->
                IF u = "u1" THEN User("admin", "u1@x") ELSE User("customer", "u2@x")])

\* Ids as the front end sends them: the canonical spelling
CanonicalIds == {IdToString(u) : u \in {"u1", "u2", UnknownUser}}

\* Ids as any client can send them
AnyCaseIds == CanonicalIds \cup {<<"u1", "upper">>, <<"u2", "upper">>}

UserEditBodies ==
    {EditBody(Undefined, Undefined, r, Undefined) :
        r \in {Undefined, "customer", "admin", "superuser"}}
    \cup {EditBody(Undefined, "u1@x", Undefined, Undefined),
          EditBody("renamed", "new@x", Undefined, "false")}

NextUsers ==
    \/ \E s \in SessionIds, id \in CanonicalIds, reason \in ReasonInputs :
            BlockUser(s, id, reason)
    \/ \E s \in SessionIds, id \in CanonicalIds : UnblockUser(s, id)
    \/ \E s \in SessionIds, id \in CanonicalIds : DeleteUser(s, id)
    \/ \E s \in SessionIds, id \in CanonicalIds, b \in UserEditBodies :
            EditUser(s, id, b)
    \/ \E s \in SessionIds : AuthenticatedRequest(s)

SpecUsers == InitTwoUsers /\ [][NextUsers]_vars

\* The same routes, with ids in any spelling
NextAnyCase ==
    \/ \E s \in SessionIds, id \in AnyCaseIds, reason \in ReasonInputs :
            BlockUser(s, id, reason)
    \/ \E s \in SessionIds, id \in AnyCaseIds : UnblockUser(s, id)
    \/ \E s \in SessionIds, id \in AnyCaseIds : DeleteUser(s, id)
    \/ \E s \in SessionIds, id \in AnyCaseIds, b \in UserEditBodies :
            EditUser(s, id, b)

SpecAnyCase == InitTwoUsers /\ [][NextAnyCase]_vars

-----------------------------------------------------------------------------
(* Checkout and manual entry: what the price validation lets through.     *)

PostBody(items, subtotal, deliveryFee, total, deliveryType, promoCode) ==
    [items |-> items, subtotal |-> subtotal, deliveryFee |-> deliveryFee,
     total |-> total, deliveryType |-> deliveryType, promoCode |-> promoCode,
     paymentInfo |-> NoPaymentInfo]

ManualBody(customerId, items, subtotal, deliveryFee, total, deliveryType, status) ==
    [customerId |-> customerId, items |-> items, subtotal |-> subtotal,
     deliveryFee |-> deliveryFee, total |-> total, deliveryType |-> deliveryType,
     status |-> status]

\* What the handlers depend on outside the request: whether the catalog can
\* be reached, and what checkPromoCodeAbuse says of this caller and code
\* and, for the order number, what Math.random() and Date.now() give, and
\* whether the user collection answers after the order is saved
Envs == [catalog : {"up", "down"}, promoAbused : BOOLEAN, random : {1000}, now : {0},
         userStore : {"up"}]

Up == [catalog |-> "up", promoAbused |-> FALSE, random |-> 1000, now |-> 0,
       userStore |-> "up"]

\* Carts: the product at its price, at a lower price, with an entry of the
\* old catalog, an unavailable product, a product that is gone
PriceItems ==
    {<<Item("p1", 1000, 1)>>,
     <<Item("p1", 900, 1)>>,
     <<Item("p1", 900, 1), Item("old", 500, 1)>>,
     <<Item("p2", 1200, 1)>>,
     <<Item("p9", 1000, 1)>>}

PriceBodies ==
    {PostBody(items, subtotal, 200, total, "delivery", promo) :
        items \in PriceItems, subtotal \in {900, 1000},
        total \in {1100, 1200, 1201}, promo \in {Undefined, "PROMO"}}

ManualBodies ==
    {ManualBody(c, items, subtotal, 200, total, "delivery", Undefined) :
        c \in {Undefined, "u2", UnknownUser},
        items \in {<<>>, <<Item("p1", 1000, 1)>>, <<Item("p1", 900, 1)>>,
                   <<Item("old", 500, 1)>>},
        subtotal \in {900, 1000}, total \in {0, 1200}}

NextPrice ==
    \/ \E s \in SessionIds, b \in PriceBodies, env \in Envs :
            PostOrder(s, b, env, MaxOrders)
    \/ \E s \in SessionIds, b \in ManualBodies, env \in Envs :
            AdminCreateOrder(s, b, env, MaxOrders)

SpecPrice == InitTwoUsers /\ [][NextPrice]_vars

-----------------------------------------------------------------------------
(* The cap on active orders: one customer checks out again and again, the *)
(* admin delivers.                                                        *)

CapBodies ==
    {PostBody(<<Item("p1", price, 1)>>, 1000, 200, 1200, "delivery", promo) :
        price \in {900, 1000}, promo \in {Undefined, "PROMO"}}

CapOrderIds == 1 .. (MaxCapOrders + 1)

NextCap ==
    \/ \E s \in SessionIds, b \in CapBodies, env \in Envs :
            PostOrder(s, b, env, MaxCapOrders)
    \/ \E s \in SessionIds, oid \in CapOrderIds :
            PatchStatus(s, oid, "delivered", MaxHistory)

SpecCap == InitTwoUsers /\ [][NextCap]_vars

-----------------------------------------------------------------------------
(* Reading orders: two customers and the admin.                           *)

InitThreeUsers ==
    InitWith([u \in UserIds |->
                IF u = "u1" THEN User("admin", "u1@x")
                ELSE IF u = "u2" THEN User("customer", "u2@x")
                ELSE User("customer", "u3@x")])

OrderIds == 1 .. (MaxOrders + 1)

ValidPostBody == PostBody(<<Item("p1", 1000, 1)>>, 1000, 200, 1200, "delivery", Undefined)

GuardManualBody ==
    ManualBody("u2", <<Item("p1", 1000, 1)>>, 1000, 200, 1200, "delivery", Undefined)

ReadManualBodies ==
    {ManualBody(c, <<Item("p1", 1000, 1)>>, 1000, 200, 1200, "delivery", Undefined) :
        c \in UserIds}

NextRead ==
    \/ \E s \in SessionIds : PostOrder(s, ValidPostBody, Up, MaxOrders)
    \/ \E s \in SessionIds, b \in ReadManualBodies :
            AdminCreateOrder(s, b, Up, MaxOrders)
    \/ \E s \in SessionIds : GetMine(s)
    \/ \E s \in SessionIds, oid \in OrderIds : GetOrder(s, oid)
    \/ \E s \in SessionIds, oid \in OrderIds : DeleteOrder(s, oid)

SpecRead == InitThreeUsers /\ [][NextRead]_vars

-----------------------------------------------------------------------------
(* Two checkouts at once.  The customer has some orders, within the cap;  *)
(* two requests arrive and nothing else happens.                          *)

\* The order store after n checkouts of the customer, the orders of the set
\* `delivered` delivered since
StoreAfter(n, delivered) ==
    [o \in 1 .. n |->
        LET order == Numbered(CheckoutOrder("u2", ValidPostBody),
                              CheckoutNumber([Up EXCEPT !.random = 1000 + o]))
        IN  IF o \in delivered THEN Transitioned(order, "delivered") ELSE order]

InitRace ==
    /\ users = [u \in {"u1", "u2"} |->
                  IF u = "u1" THEN User("admin", "u1@x") ELSE User("customer", "u2@x")]
    /\ session = InitSession
    /\ \E n \in 0 .. MaxRaceOrders, delivered \in {{}, {1}} :
          /\ delivered \subseteq 1 .. n
          /\ orders = StoreAfter(n, delivered)
          /\ nextOrderId = n + 1
    /\ ActiveOrdersCount(orders, "u2") <= ActiveOrderLimit
    /\ res = NoResponse
    /\ seclog = <<>>
    /\ inflight = [r \in Requests |-> Idle]
    /\ cartItems = <<>>
    /\ localStorage = NoStoredCart

NextRace ==
    \/ \E r \in Requests, s \in {"s1", "s2"}, b \in CapBodies, env \in Envs :
            BeginCheckout(r, s, b, env)
    \/ \E r \in Requests : CompleteCheckout(r)

SpecRace == InitRace /\ [][NextRace]_vars

-----------------------------------------------------------------------------
(* The life of an order: created by checkout or by manual entry, moved    *)
(* from status to status, deleted.                                        *)

StatusManualBodies ==
    {ManualBody("u2", <<Item("p1", 1000, 1)>>, 1000, 200, 1200, "delivery", status) :
        status \in {Undefined, "delivered"}}

\* Statuses a client sends: three of the six, and one that is none of them
StatusInputs == {"confirmed", "preparing", "delivered", "lost"}

StatusOrderIds == 1 .. (MaxStatusOrders + 1)

NextStatus ==
    \/ \E s \in SessionIds : PostOrder(s, ValidPostBody, Up, MaxStatusOrders)
    \/ \E s \in SessionIds, b \in StatusManualBodies :
            AdminCreateOrder(s, b, Up, MaxStatusOrders)
    \/ \E s \in SessionIds, oid \in StatusOrderIds, status \in StatusInputs :
            PatchStatus(s, oid, status, MaxHistory)
    \/ \E s \in SessionIds, oid \in StatusOrderIds : DeleteOrder(s, oid)

SpecStatus == InitTwoUsers /\ [][NextStatus]_vars

-----------------------------------------------------------------------------
(* Order numbers: checkouts and manual entries on two days, with the      *)
(* random part of the number one of a few values.                         *)

NumberEnvs == [catalog : {"up"}, promoAbused : {FALSE},
               random : {1000, 1001, 9999}, now : 0 .. (2 * TicksPerDay - 1),
               userStore : {"up"}]

NextNumber ==
    \/ \E s \in SessionIds, env \in NumberEnvs :
            PostOrder(s, ValidPostBody, env, MaxOrders)
    \/ \E s \in SessionIds, env \in NumberEnvs :
            AdminCreateOrder(s, GuardManualBody, env, MaxOrders)

SpecNumber == InitTwoUsers /\ [][NextNumber]_vars

-----------------------------------------------------------------------------
(* Saving cards at checkout.  The customer checks out with and without a  *)
(* card to save; the user collection may fail after the order is saved;   *)
(* two requests may both be between reading the user and user.save().     *)

Last4s == {"4242", "1111"}

CardBodies ==
    {[ValidPostBody EXCEPT !.paymentInfo = p] :
        p \in {NoPaymentInfo} \cup {PaymentInfo(l, sc) : l \in Last4s, sc \in BOOLEAN}}

CardEnvs == [catalog : {"up"}, promoAbused : {FALSE}, random : {1000}, now : {0},
             userStore : {"up", "down"}]

\* POST /api/orders up to the await of user.save(): the order is saved, the
\* user document is read and has no card of this last4, the card is pushed
\* to the copy this request holds.
BeginSaveCard(r, s, b, env) ==
    LET out == postOrder(users, session, orders, nextOrderId, s, b, env)
    IN  /\ inflight[r] = Idle
        /\ out.users # users
        /\ nextOrderId <= MaxCardOrders
        /\ orders' = out.orders
        /\ nextOrderId' = nextOrderId + 1
        /\ inflight' = [inflight EXCEPT ![r] =
                           [pc |-> "pushing", user |-> session[s], b |-> b,
                            env |-> env, res |-> out.res]]
        /\ UNCHANGED <<users, session, res, seclog, cartItems, localStorage>>

\* The rest of POST /api/orders: user.save() appends the pushed card to the
\* stored list as it is now, the user is looked up, the answer is sent.
CompleteSaveCard(r) ==
    LET q == inflight[r]
    IN  /\ q.pc = "pushing"
        /\ users' = [users EXCEPT ![q.user] = SavedCard(@, q.b.paymentInfo, q.env)]
        /\ res' = q.res
        /\ seclog' = <<>>
        /\ inflight' = [inflight EXCEPT ![r] = Done]
        /\ UNCHANGED <<session, orders, nextOrderId, cartItems, localStorage>>

NextCards ==
    \/ \E s \in SessionIds, b \in CardBodies, env \in CardEnvs :
            PostOrder(s, b, env, MaxCardOrders)
    \/ \E r \in Requests, s \in SessionIds, b \in CardBodies, env \in CardEnvs :
            BeginSaveCard(r, s, b, env)
    \/ \E r \in Requests : CompleteSaveCard(r)

SpecCards == InitTwoUsers /\ [][NextCards]_vars

-----------------------------------------------------------------------------
(* The order store under every route that writes it, one request at a     *)
(* time: the customer has some orders, within the cap, and checks out;    *)
(* the admin enters orders for the customer, sets statuses and deletes.   *)

StoreOrderIds == {1, MaxStoreOrders}

NextStore ==
    \/ \E s \in {"s1", "s2"} : PostOrder(s, ValidPostBody, Up, MaxStoreOrders)
    \/ \E s \in {"s1", "s2"} :
            AdminCreateOrder(s, GuardManualBody, Up, MaxStoreOrders)
    \/ \E s \in {"s1", "s2"}, oid \in StoreOrderIds,
          status \in {"confirmed", "delivered", "cancelled"} :
            PatchStatus(s, oid, status, MaxHistory)
    \/ \E s \in {"s1", "s2"}, oid \in StoreOrderIds : DeleteOrder(s, oid)

SpecStore == InitRace /\ [][NextStore]_vars

-----------------------------------------------------------------------------
(* The cart: the customer adds products of the menu, changes quantities,  *)
(* removes lines, empties the cart and reloads the page.  The browser may *)
(* hold a cart that an older version of the front end stored.             *)

Rep(c, n) == [i \in 1 .. n |-> c]

\* Product ids of the catalog: with letters, and of decimal digits only
IdA == JsString(<<"a">> \o Rep("0", 23))
IdB == JsString(<<"B">> \o Rep("0", 23))
IdDigits == JsString(Rep("1", 24))

\* Ids of the old catalog: a number, and a short string
OldNumberId == JsNumber(<<"4", "2">>)
OldStringId == JsString(<<"4", "2">>)

\* What the pages hand to addToCart: the product with its id in _id, in id
\* or in both, with the size chosen
CartProducts ==
    {CartItem(IdA, JsUndefined, "M", "thin", 0),
     CartItem(IdA, JsUndefined, "L", "thin", 0),
     CartItem(IdB, JsUndefined, "M", "thin", 0),
     CartItem(JsUndefined, IdA, "M", "thin", 0),
     CartItem(JsUndefined, IdB, "M", "thin", 0),
     CartItem(IdB, IdB, "L", "thin", 0),
     CartItem(IdDigits, IdDigits, "M", "thin", 0),
     CartItem(JsUndefined, JsUndefined, "M", "thin", 0),
     CartItem(JsUndefined, OldStringId, "M", "thin", 0),
     CartItem(OldNumberId, JsUndefined, "M", "thin", 0)}

LineIds == {JsUndefined, IdA, IdB, IdDigits}

\* What localStorage holds when the provider is first built
InitialCarts ==
    {NoStoredCart, MalformedCart,
     Stored(stringify(<<CartItem(JsUndefined, OldNumberId, "M", "thin", 1)>>)),
     Stored(stringify(<<CartItem(JsUndefined, OldStringId, "M", "thin", 2)>>)),
     Stored(stringify(<<CartItem(JsUndefined, JsUndefined, "M", "thin", 1)>>))}

InitCart ==
    /\ users = [u \in {"u1", "u2"} |->
                  IF u = "u1" THEN User("admin", "u1@x") ELSE User("customer", "u2@x")]
    /\ session = InitSession
    /\ orders = <<>>
    /\ nextOrderId = 1
    /\ res = NoResponse
    /\ seclog = <<>>
    /\ inflight = [r \in Requests |-> Idle]
    /\ \E saved \in InitialCarts :
          /\ cartItems = validItems(hydrate(saved))
          /\ localStorage = Stored(stringify(validItems(hydrate(saved))))

NextCart ==
    \/ \E product \in CartProducts : AddToCart(product)
    \/ \E id \in LineIds, size \in {"M", "L"} : RemoveFromCart(id, size, "thin")
    \/ \E id \in LineIds, size \in {"M", "L"}, delta \in {-1, 1} :
            UpdateQuantity(id, size, "thin", delta)
    \/ ClearCart
    \/ Reload

SpecCart == InitCart /\ [][NextCart]_vars

-----------------------------------------------------------------------------
(* Every route of the two routers, behind its guard.                      *)

GuardUserIds == {IdToString(u) : u \in {"u1", "u2"}}

GuardEditBodies ==
    {EditBody(Undefined, Undefined, r, Undefined) : r \in {"customer", "admin"}}

ProfileBodies == {[full_name |-> Undefined, email |-> "u2@x"]}

GuardOrderIds == 1 .. (MaxGuardOrders + 1)

Next ==
    \/ \E s \in SessionIds : BlockUser(s, IdToString("u2"), Undefined)
    \/ \E s \in SessionIds : UnblockUser(s, IdToString("u2"))
    \/ \E s \in SessionIds, id \in GuardUserIds : DeleteUser(s, id)
    \/ \E s \in SessionIds, id \in GuardUserIds, b \in GuardEditBodies :
            EditUser(s, id, b)
    \/ \E s \in SessionIds, b \in ProfileBodies : EditProfile(s, b)
    \/ \E s \in SessionIds, route \in AdminUserGets :
            AdminGetUsers(s, route, IdToString("u2"))
    \/ \E s \in SessionIds : PostOrder(s, ValidPostBody, Up, MaxGuardOrders)
    \/ \E s \in SessionIds : AdminCreateOrder(s, GuardManualBody, Up, MaxGuardOrders)
    \/ \E s \in SessionIds : GetMine(s)
    \/ \E s \in SessionIds : GetOrder(s, 1)
    \/ \E s \in SessionIds, route \in AdminOrderGets : AdminGetOrders(s, route, 1)
    \/ \E s \in SessionIds, status \in {"delivered", "lost"} :
            PatchStatus(s, 1, status, MaxHistory)
    \/ \E s \in SessionIds, oid \in GuardOrderIds : DeleteOrder(s, oid)

Spec == InitTwoUsers /\ [][Next]_vars

\* The caller of a request on session s is an existing admin
IsAdminSession(s) ==
    /\ session[s] # Null
    /\ session[s] \in DOMAIN users
    /\ users[session[s]].role = "admin"

\* The id names an existing admin other than the caller on session s
IsOtherAdmin(s, id) ==
    /\ CastObjectId(id) \in DOMAIN users
    /\ users[CastObjectId(id)].role = "admin"
    /\ CastObjectId(id) # session[s]

\* The outcome leaves the document of the id's user as it is now
TargetUnchanged(out, id) ==
    /\ CastObjectId(id) \in DOMAIN out.users
    /\ out.users[CastObjectId(id)] = users[CastObjectId(id)]

\* The user of session s exists and is blocked
IsBlockedSession(s) ==
    /\ session[s] # Null
    /\ session[s] \in DOMAIN users
    /\ users[session[s]].is_blocked

\* C4: in every reachable state, a block request that succeeds stores
\* is_blocked and the reason given (or the default one); a request through
\* isAuthenticated of a user who is blocked is answered 403 with the stored
\* blocked_reason and destroys the session, and the next request on that
\* session is answered 401.
C4_BlockRevokesSession ==
    /\ \A s \in SessionIds, id \in CanonicalIds, reason \in ReasonInputs :
          LET out == blockUser(users, session, orders, s, id, reason)
          IN  out.res.status = 200 =>
                /\ out.users[CastObjectId(id)].is_blocked
                /\ out.users[CastObjectId(id)].blocked_reason =
                       (IF reason = Undefined THEN DefaultBlockReason ELSE reason)
    /\ \A s \in SessionIds :
          LET out == isAuthenticated(users, session, orders, s)
          IN  IsBlockedSession(s) =>
                /\ out.res.by = "isAuthenticated"
                /\ out.res.status = 403
                /\ out.res.reason = users[session[s]].blocked_reason
                /\ out.session[s] = Null
                /\ isAuthenticated(out.users, out.session, out.orders, s).res.status
                      = 401

\* C4 witness: the customer, blocked with a reason of the admin's, was denied
\* with that reason and lost the session.
C4_Witness ==
    /\ res.route = "isAuthenticated route"
    /\ res.status = 403
    /\ res.reason = "payment fraud"
    /\ "u2" \in DOMAIN users
    /\ users["u2"].is_blocked
    /\ users["u2"].blocked_reason = "payment fraud"
    /\ session["s2"] = Null

\* C6: in every reachable state, a block or a delete request whose target is
\* an admin other than the caller leaves the target's document as it is, and
\* is answered 400 when the caller is an admin.
C6_OtherAdminNotBlockedNorDeleted ==
    /\ \A s \in SessionIds, id \in CanonicalIds, reason \in ReasonInputs :
          LET out == blockUser(users, session, orders, s, id, reason)
          IN  IsOtherAdmin(s, id) =>
                /\ TargetUnchanged(out, id)
                /\ IsAdminSession(s) => out.res.status = 400
    /\ \A s \in SessionIds, id \in CanonicalIds :
          LET out == deleteUser(users, session, orders, s, id)
          IN  IsOtherAdmin(s, id) =>
                /\ TargetUnchanged(out, id)
                /\ IsAdminSession(s) => out.res.status = 400

\* C6 witness: a delete request was refused because its target is an admin
\* (the ids of this specification are canonical, so the target is not the
\* caller), and both admins are still there.
C6_Witness ==
    /\ res.route = "DELETE /admin/users/:id"
    /\ res.status = 400
    /\ res.kind = "Cannot delete admin users"
    /\ \A u \in {"u1", "u2"} : u \in DOMAIN users /\ users[u].role = "admin"

\* C7 (as claimed): an edit request of an admin that carries a role and whose
\* target is another admin is answered 400 and leaves the target as it is.
C7_EditRoleOfOtherAdminRejected ==
    \A s \in SessionIds, id \in CanonicalIds, b \in UserEditBodies :
        LET out == editUser(users, session, orders, s, id, b)
        IN  (IsAdminSession(s) /\ IsOtherAdmin(s, id) /\ b.role # Undefined) =>
                /\ out.res.status = 400
                /\ TargetUnchanged(out, id)

\* C8 (as claimed): an unblock request of an admin whose target is an admin
\* is answered 400 and leaves the target's block fields as they are.
C8_UnblockOfAdminRejected ==
    \A s \in SessionIds, id \in CanonicalIds :
        LET out == unblockUser(users, session, orders, s, id)
        IN  (/\ IsAdminSession(s)
             /\ CastObjectId(id) \in DOMAIN users
             /\ users[CastObjectId(id)].role = "admin") =>
                /\ out.res.status = 400
                /\ TargetUnchanged(out, id)

IsCustomerSession(s) ==
    /\ session[s] # Null
    /\ session[s] \in DOMAIN users
    /\ users[session[s]].role # "admin"

\* The body has an item of a catalog product at another price than the
\* catalog's
HasPriceMismatch(b) ==
    \E i \in DOMAIN b.items :
        /\ b.items[i].id \in DOMAIN Catalog
        /\ b.items[i].price # Catalog[b.items[i].id].price

\* The request gets as far as the price validation, and the validation
\* answers
ReachesValidation(s, b, env) ==
    /\ IsCustomerSession(s)
    /\ ActiveOrdersCount(orders, session[s]) < ActiveOrderLimit
    /\ \A i \in DOMAIN b.items : IsValidObjectId(b.items[i].id)
    /\ env.catalog = "up"

\* C1 (as claimed): a checkout request of a customer with an item whose
\* price differs from the catalog's is answered 400 validationFailed, and no
\* order is persisted.
C1_PriceMismatchAnswered400ValidationFailed ==
    \A s \in SessionIds, b \in PriceBodies, env \in Envs :
        LET out == postOrder(users, session, orders, nextOrderId, s, b, env)
        IN  (IsCustomerSession(s) /\ HasPriceMismatch(b)) =>
                /\ out.res.status = 400
                /\ out.res.kind = "validationFailed"
                /\ out.orders = orders

\* C1 (amended): a checkout request with an item whose price differs from
\* the catalog's is never answered 201 and persists no order; it is answered
\* 400 validationFailed with a PriceMismatch error when it gets as far as the
\* price validation (a customer under the cap, every product id well formed,
\* the catalog reachable).
C1_PriceMismatchRejected ==
    \A s \in SessionIds, b \in PriceBodies, env \in Envs :
        LET out == postOrder(users, session, orders, nextOrderId, s, b, env)
        IN  HasPriceMismatch(b) =>
                /\ out.res.status \in {400, 401, 403, 500}
                /\ out.orders = orders
                /\ ReachesValidation(s, b, env) =>
                        /\ out.res.status = 400
                        /\ out.res.kind = "validationFailed"
                        /\ "PriceMismatch" \in out.res.errors

\* C1 witness: a checkout was answered validationFailed for a price
\* mismatch while an order of an earlier checkout is in the store.
C1_Witness ==
    /\ res.route = "POST /orders"
    /\ res.status = 400
    /\ res.kind = "validationFailed"
    /\ "PriceMismatch" \in res.errors
    /\ Cardinality(DOMAIN orders) = 1

\* C2 (as claimed): every persisted order satisfies
\* subtotal + delivery_fee = total within 0.01.
C2_StoredAmountsAddUp ==
    \A o \in DOMAIN orders :
        Abs(orders[o].subtotal + orders[o].delivery_fee - orders[o].total) <= Epsilon

\* C3: in every reachable state, a checkout request of a customer with 5 or
\* more active orders is answered 400 orderLimitReached with the count and
\* persists nothing; with fewer than 5 (4 among them) a valid request is
\* answered 201 and the customer has one more active order.
C3_ActiveOrderCap ==
    \A s \in SessionIds, b \in CapBodies, env \in Envs :
        IsCustomerSession(s) =>
            LET n == ActiveOrdersCount(orders, session[s])
                out == postOrder(users, session, orders, nextOrderId, s, b, env)
                valid == /\ validateOrder(b).isValid
                         /\ env.catalog = "up"
                         /\ ~(b.promoCode # Undefined /\ env.promoAbused)
            IN  /\ n >= ActiveOrderLimit =>
                      /\ out.res.status = 400
                      /\ out.res.kind = "orderLimitReached"
                      /\ out.res.activeOrders = n
                      /\ out.orders = orders
                /\ (n < ActiveOrderLimit /\ valid) =>
                      /\ out.res.status = 201
                      /\ ActiveOrdersCount(out.orders, session[s]) = n + 1

\* C3 witness: the customer has 5 active orders, the fifth accepted at 4,
\* and the next checkout was refused with the count 5.
C3_Witness ==
    /\ res.route = "POST /orders"
    /\ res.kind = "orderLimitReached"
    /\ res.activeOrders = ActiveOrderLimit
    /\ ActiveOrdersCount(orders, "u2") = ActiveOrderLimit

\* The session carries no user id, or the id of a user who is gone
HasNoSessionUser(s) == session[s] = Null \/ session[s] \notin DOMAIN users

\* The outcome leaves every store as it is
StoresUnchanged(out) ==
    /\ out.users = users
    /\ out.session = session
    /\ out.orders = orders

\* The outcome of a request on session s to a route for admins
GuardedForAdmins(out, s) ==
    /\ out.res.by = "handler" <=> IsAdminSession(s)
    /\ HasNoSessionUser(s) => (out.res.status = 401 /\ StoresUnchanged(out))
    /\ IsCustomerSession(s) =>
            /\ out.res.status = 403
            /\ out.res.userRole = users[session[s]].role
            /\ StoresUnchanged(out)

\* The outcome of a request on session s to a route for customers
GuardedForCustomers(out, s) ==
    /\ out.res.by = "handler" <=> IsCustomerSession(s)
    /\ HasNoSessionUser(s) => (out.res.status = 401 /\ StoresUnchanged(out))
    /\ IsAdminSession(s) =>
            /\ out.res.status = 403
            /\ out.res.userRole = "admin"
            /\ StoresUnchanged(out)

GuardCheckUserIds == {IdToString(u) : u \in {"u1", "u2", UnknownUser}}

\* C5: in every reachable state, a request to a route under /api/admin or
\* /api/orders/admin, or to the status route, reaches its handler exactly when
\* the session user exists and is an admin, and a request to the checkout
\* route, /orders/mine or /orders/:id exactly when the session user exists and
\* is no admin; without a session user the answer is 401, with the wrong role
\* 403 with the caller's role as userRole, and in both cases no store changes.
C5_RoleGuards ==
    \A s \in SessionIds :
        /\ \A id \in GuardCheckUserIds :
              /\ \A reason \in ReasonInputs :
                    GuardedForAdmins(blockUser(users, session, orders, s, id, reason), s)
              /\ GuardedForAdmins(unblockUser(users, session, orders, s, id), s)
              /\ GuardedForAdmins(deleteUser(users, session, orders, s, id), s)
              /\ \A b \in GuardEditBodies :
                    GuardedForAdmins(editUser(users, session, orders, s, id, b), s)
              /\ \A route \in AdminUserGets :
                    GuardedForAdmins(
                        adminGetUsers(users, session, orders, s, route, id), s)
        /\ \A b \in ProfileBodies :
              GuardedForAdmins(editProfile(users, session, orders, s, b), s)
        /\ \A oid \in GuardOrderIds :
              /\ \A route \in AdminOrderGets :
                    GuardedForAdmins(
                        adminGetOrders(users, session, orders, s, route, oid), s)
              /\ \A status \in {"delivered", "lost"} :
                    GuardedForAdmins(
                        patchStatus(users, session, orders, s, oid, status), s)
              /\ GuardedForAdmins(deleteOrder(users, session, orders, s, oid), s)
              /\ GuardedForCustomers(getOrder(users, session, orders, s, oid), s)
        /\ \A env \in Envs :
              /\ GuardedForAdmins(
                    adminCreateOrder(users, session, orders, nextOrderId, s,
                                     GuardManualBody, env), s)
              /\ \A b \in CapBodies :
                    GuardedForCustomers(
                        postOrder(users, session, orders, nextOrderId, s, b, env), s)
        /\ GuardedForCustomers(getMine(users, session, orders, s), s)

\* C5 witness: a customer asked to delete an order and was answered 403 with
\* the userRole hint; the order is still there.
C5_Witness ==
    /\ res.route = "DELETE /orders/admin/:id"
    /\ res.by = "adminOnly"
    /\ res.status = 403
    /\ res.userRole = "customer"
    /\ DOMAIN orders # {}

\* C11: when two checkout requests of a customer within the cap are handled
\* at once and nothing else happens, the customer never has more than one
\* active order above the cap.
C11_RaceExceedsCapByAtMostOne ==
    ActiveOrdersCount(orders, "u2") <= ActiveOrderLimit + 1

\* C11 witness: both requests have read their count before either saved, both
\* were answered, and the customer has 6 active orders.
C11_Witness ==
    /\ \A r \in Requests : inflight[r] = Done
    /\ res.route = "POST /orders"
    /\ res.status = 201
    /\ ActiveOrdersCount(orders, "u2") = ActiveOrderLimit + 1

\* C12: in every reachable state, a checkout or a manual entry handled while
\* the catalog cannot be reached (validateOrder throws) is answered with an
\* error status and persists no order; when the request gets as far as the
\* validation the answer is 500.
C12_ValidatorFailureRejects ==
    \A s \in SessionIds, env \in Envs :
        env.catalog = "down" =>
            /\ \A b \in PriceBodies :
                  LET out == postOrder(users, session, orders, nextOrderId, s, b, env)
                  IN  /\ out.res.status >= 400
                      /\ out.orders = orders
                      /\ ReachesValidation(s, b, [env EXCEPT !.catalog = "up"]) =>
                            out.res.status = 500
            /\ \A b \in ManualBodies :
                  LET out == adminCreateOrder(users, session, orders, nextOrderId,
                                              s, b, env)
                  IN  /\ out.res.status >= 400
                      /\ out.orders = orders
                      /\ (/\ IsAdminSession(s)
                          /\ b.customerId \in DOMAIN users
                          /\ b.items # <<>> /\ b.total # 0
                          /\ \A i \in DOMAIN b.items : IsValidObjectId(b.items[i].id)) =>
                            out.res.status = 500

\* C12 witness: a checkout met an unreachable catalog and was answered 500
\* while an order of an earlier checkout is in the store.
C12_Witness ==
    /\ res.route = "POST /orders"
    /\ res.status = 500
    /\ res.kind = "Failed to place order"
    /\ Cardinality(DOMAIN orders) = 1

\* C13 (as claimed): every order was created with the status confirmed and
\* a status_history of exactly one entry, whose status is confirmed: the
\* first entry of every stored history is a confirmed one, and an order with
\* no later entry has the status confirmed.
C13_CreatedConfirmed ==
    \A o \in DOMAIN orders :
        /\ Len(orders[o].status_history) >= 1
        /\ orders[o].status_history[1].status = "confirmed"
        /\ Len(orders[o].status_history) = 1 => orders[o].status = "confirmed"

\* The sequence an order is meant to move along
StatusSequence == <<"confirmed", "preparing", "ready", "out_for_delivery", "delivered">>

Rank(status) == CHOOSE i \in DOMAIN StatusSequence : StatusSequence[i] = status

\* A move from one status to the next that the claimed life of an order allows
IsForwardMove(from, to) ==
    \/ to = from
    \/ /\ from \notin {"delivered", "cancelled"}
       /\ to = "cancelled" \/ Rank(to) > Rank(from)

\* C14 (as claimed): the status of an order never changes once it is
\* delivered or cancelled, and before that it only moves forward along the
\* sequence or to cancelled: every two successive entries of a stored
\* status_history are such a move.
C14_StatusMovesForward ==
    \A o \in DOMAIN orders :
        \A i \in 1 .. (Len(orders[o].status_history) - 1) :
            IsForwardMove(orders[o].status_history[i].status,
                          orders[o].status_history[i + 1].status)

SameButStatus(before, after) ==
    /\ after.items = before.items
    /\ after.subtotal = before.subtotal
    /\ after.delivery_fee = before.delivery_fee
    /\ after.total = before.total
    /\ after.customer = before.customer
    /\ after.order_number = before.order_number

\* C17: no request to any route changes the items, subtotal, delivery_fee,
\* total, customer or order_number of an order that is in the store before
\* and after it.
C17_OrdersImmutable ==
    [][\A o \in DOMAIN orders \cap DOMAIN orders' :
            SameButStatus(orders[o], orders'[o])]_vars

\* C17 witness: a status request was accepted for the order of a checkout;
\* the order is delivered and has the amounts it was created with.
C17_Witness ==
    /\ res.route = "PATCH /orders/:id/status"
    /\ res.status = 200
    /\ 1 \in DOMAIN orders
    /\ orders[1].status = "delivered"
    /\ orders[1].total = ValidPostBody.total
    /\ orders[1].subtotal = ValidPostBody.subtotal

\* The last entry of a status_history
LastEntry(order) == order.status_history[Len(order.status_history)]

\* The history `after` is the history `before`, or `before` with one entry
\* appended, and the appended entry carries the status `status`
IsAppendOf(before, after, status) ==
    \/ after = before
    \/ /\ Len(after) = Len(before) + 1
       /\ SubSeq(after, 1, Len(before)) = before
       /\ after[Len(after)].status = status

\* C18: in every reachable state the status of an order is the status of the
\* last entry of its status_history, and every step leaves the history of an
\* order as it is or appends exactly one entry, which carries the order's new
\* status; a status request that is accepted appends one.
C18_HistoryAppendOnly ==
    /\ [](\A o \in DOMAIN orders :
              /\ Len(orders[o].status_history) >= 1
              /\ orders[o].status = LastEntry(orders[o]).status)
    /\ [][(\A o \in DOMAIN orders \cap DOMAIN orders' :
                IsAppendOf(orders[o].status_history, orders'[o].status_history,
                           orders'[o].status))
           /\
           ((res'.route = "PATCH /orders/:id/status" /\ res'.status = 200) =>
                \A p \in res'.orders :
                    Len(orders'[p].status_history) = Len(orders[p].status_history) + 1)
          ]_vars

\* C18 witness: an accepted status request has appended a second entry to
\* the history of an order, and the order has the status of that entry.
C18_Witness ==
    /\ res.route = "PATCH /orders/:id/status"
    /\ res.status = 200
    /\ \E o \in res.orders :
          /\ Len(orders[o].status_history) = 2
          /\ orders[o].status_history[1].status = "confirmed"
          /\ orders[o].status_history[2].status = "preparing"
          /\ orders[o].status = "preparing"

\* The security log of the last request has the entry of the deletion of
\* this order, with the customer, total and status the order had
IsLoggedDeletion(log, oid, order) ==
    \E i \in DOMAIN log :
        /\ log[i].event = "Order deleted by admin"
        /\ log[i].orderId = oid
        /\ log[i].customerId = order.customer
        /\ log[i].total = order.total
        /\ log[i].status = order.status

C20_EveryDenialLogged ==
    res.by \in {"adminOnly", "userOnly", "isAuthenticated"} => seclog # <<>>

\* C10: in every reachable state, GET /orders/mine returns the orders whose
\* customer is the caller and no other, and GET /orders/:id returns an order
\* only to its customer: the id of an order of someone else is answered 404
\* as an id of no order is.
C10_OwnOrdersOnly ==
    \A s \in SessionIds :
        /\ LET out == getMine(users, session, orders, s)
           IN  /\ \A o \in out.res.orders : orders[o].customer = session[s]
               /\ out.res.status = 200 =>
                     \A o \in DOMAIN orders :
                        orders[o].customer = session[s] => o \in out.res.orders
        /\ \A oid \in OrderIds :
              LET out == getOrder(users, session, orders, s, oid)
              IN  /\ \A o \in out.res.orders : orders[o].customer = session[s]
                  /\ (/\ IsCustomerSession(s)
                      /\ oid \in DOMAIN orders
                      /\ orders[oid].customer # session[s]) =>
                        /\ out.res.status = 404
                        /\ out.res.kind = "Order not found"

\* C10 witness: a customer asked for an order that exists and is someone
\* else's, and was answered 404.
C10_Witness ==
    /\ res.route = "GET /orders/:id"
    /\ res.status = 404
    /\ res.param \in DOMAIN orders
    /\ \E o \in DOMAIN orders : orders[o].customer = "u2"
    /\ \E o \in DOMAIN orders : orders[o].customer = "u3"

\* The sessions of a user
SessionsOf(userId) == {s \in SessionIds : session[s] = userId}

\* C21: in every reachable state, when an edit request has given a user
\* another role, the next request on each session of that user is passed or
\* denied by adminOnly and by userOnly according to the new role; when a
\* delete request has removed a user, the next request on each session of
\* that user is answered 401 by both guards.
C21_GuardsUseLiveUserState ==
    \A s \in SessionIds, id \in GuardUserIds :
        /\ \A b \in GuardEditBodies :
              LET out == editUser(users, session, orders, s, id, b)
              IN  out.res.status = 200 =>
                    \A t \in SessionsOf(CastObjectId(id)) :
                        /\ adminOnly(out.users, out.session, t).pass
                              <=> b.role = "admin"
                        /\ userOnly(out.users, out.session, t).pass
                              <=> b.role # "admin"
                        /\ b.role = "admin" =>
                              userOnly(out.users, out.session, t).status = 403
                        /\ b.role # "admin" =>
                              adminOnly(out.users, out.session, t).status = 403
        /\ LET out == deleteUser(users, session, orders, s, id)
           IN  out.res.status = 200 =>
                    \A t \in SessionsOf(CastObjectId(id)) :
                        /\ adminOnly(out.users, out.session, t).status = 401
                        /\ userOnly(out.users, out.session, t).status = 401

\* C21 witness: the customer of the initial state was made an admin and the
\* admin a customer; a request of the only admin to a customer route was denied
\* as an admin's.
C21_Witness ==
    /\ res.by = "userOnly"
    /\ res.status = 403
    /\ res.userRole = "admin"
    /\ "u1" \in DOMAIN users /\ users["u1"].role = "customer"
    /\ "u2" \in DOMAIN users /\ users["u2"].role = "admin"


\* The four block fields of a user are set together or cleared together
BlockFieldsAgree(user) ==
    IF user.is_blocked
    THEN user.blocked_reason # Null /\ user.blocked_at # Null /\ user.blocked_by # Null
    ELSE user.blocked_reason = Null /\ user.blocked_at = Null /\ user.blocked_by = Null

\* C22: the block fields are set and cleared together. Every stored user is
\* blocked exactly when blocked_reason, blocked_at and blocked_by are all
\* non-null (and they are all null otherwise); an administrator's request to
\* block a user who is already blocked, or to unblock a user who is not
\* blocked, is answered 400 and leaves the user's document as it was.
C22_BlockFieldsSetTogether ==
    /\ \A u \in DOMAIN users : BlockFieldsAgree(users[u])
    /\ \A s \in SessionIds, id \in CanonicalIds :
          (IsAdminSession(s) /\ CastObjectId(id) \in DOMAIN users) =>
             /\ users[CastObjectId(id)].is_blocked =>
                   \A reason \in ReasonInputs :
                       LET out == blockUser(users, session, orders, s, id, reason)
                       IN  out.res.status = 400 /\ TargetUnchanged(out, id)
             /\ ~users[CastObjectId(id)].is_blocked =>
                   LET out == unblockUser(users, session, orders, s, id)
                   IN  out.res.status = 400 /\ TargetUnchanged(out, id)

\* C22 witness: a user who was blocked has just been unblocked, and all four
\* fields are cleared
C22_Witness ==
    /\ res.route = "PATCH /admin/users/:id/unblock"
    /\ res.status = 200
    /\ "u2" \in DOMAIN users
    /\ ~users["u2"].is_blocked
    /\ users["u2"].blocked_reason = Null
    /\ users["u2"].blocked_at = Null
    /\ users["u2"].blocked_by = Null


\* C23 (as claimed): saved cards are de-duplicated by last4. No stored user
\* has two entries of savedCards with the same last4, whatever checkouts with
\* saveCard came before, two requests of the same customer at once included;
\* and a checkout whose last4 is already saved leaves the list as it is.
C23_NoDuplicateCards ==
    /\ \A u \in DOMAIN users :
          \A i, j \in DOMAIN users[u].savedCards :
              users[u].savedCards[i].last4 = users[u].savedCards[j].last4 => i = j
    /\ \A s \in SessionIds, b \in CardBodies, env \in CardEnvs :
          LET out == postOrder(users, session, orders, nextOrderId, s, b, env)
          IN  (/\ IsCustomerSession(s)
               /\ b.paymentInfo.given
               /\ cardExists(users[session[s]], b.paymentInfo.last4))
              => out.users[session[s]].savedCards = users[session[s]].savedCards


\* C24 (as claimed): the cap is an invariant of the order store when requests
\* are handled one at a time. After any sequence of checkouts, manual
\* entries, status changes and deletions, no customer has more than
\* ActiveOrderLimit orders in a non-terminal status.
C24_CapIsStoreInvariant ==
    \A u \in UserIds : ActiveOrdersCount(orders, u) <= ActiveOrderLimit


\* C25 (as claimed): a blocked customer cannot create or read orders. On a
\* session whose user is a blocked customer, POST /orders, GET /orders/mine
\* and GET /orders/:id are denied (401 or 403), return no order and leave the
\* stores as they are.
C25_BlockedCustomerDenied ==
    \A s \in SessionIds :
        (IsBlockedSession(s) /\ IsCustomerSession(s)) =>
            /\ LET out == postOrder(users, session, orders, nextOrderId, s,
                                    ValidPostBody, Up)
               IN  out.res.status \in {401, 403} /\ StoresUnchanged(out)
            /\ LET out == getMine(users, session, orders, s)
               IN  out.res.status \in {401, 403} /\ out.res.orders = {}
            /\ \A oid \in GuardOrderIds :
                  LET out == getOrder(users, session, orders, s, oid)
                  IN  out.res.status \in {401, 403} /\ out.res.orders = {}


\* C26 (as claimed): no sequence of block, unblock, edit and delete requests
\* leads to a stored user who has role admin and is blocked.
C26_NoBlockedAdmin ==
    \A u \in DOMAIN users : ~(users[u].role = "admin" /\ users[u].is_blocked)


\* C27 (as claimed): POST /orders persists an order exactly when it answers
\* 201. A whole request that ends with an error answer (400, 403, 500; a
\* failure of the card step or of the user lookup after the order save
\* included) leaves no new order in the store, and one that answers 201
\* leaves one.
C27_PersistsIffCreated ==
    [][(inflight' = inflight /\ res'.route = "POST /orders")
          => (res'.status = 201 <=> orders' # orders)]_vars


\* C28 (as claimed): in every reachable state the customer of every stored
\* order is an existing user whose role is customer, whatever checkouts,
\* manual entries, user edits and user deletions came before.
C28_OrderCustomerIsCustomer ==
    \A o \in DOMAIN orders :
        /\ orders[o].customer \in DOMAIN users
        /\ users[orders[o].customer].role = "customer"


\* C29 (as claimed): the cart persistence round-trips. The cart that the
\* persist effect wrote to localStorage is restored unchanged by the next
\* hydration, for every cart the provider can hold; and hydration discards a
\* stored cart only when some stored item has a missing or malformed id.
C29_CartRoundTrips ==
    /\ hydrate(localStorage) = cartItems
    /\ \A saved \in InitialCarts \cup {localStorage} :
          (/\ saved.present
           /\ saved.wellFormed
           /\ saved.json # <<>>
           /\ hydrate(saved) = <<>>)
          => \E i \in DOMAIN saved.json :
                ~isValidObjectId(ProductIdOf(parse(saved.json)[i]))


\* The cart line and the product are the same product in the same size and
\* crust, the product id being the one carried in _id or in id
SameProductLine(item, product) ==
    /\ ProductIdOf(item) = ProductIdOf(product)
    /\ item.selectedSize = product.selectedSize
    /\ item.selectedCrust = product.selectedCrust

\* C30 (as claimed): addToCart keeps one line per distinct (product, size,
\* crust). The cart never has two lines of the same product, size and crust;
\* adding a valid product that has a line adds one to that line's quantity
\* and adds no line; adding any other valid product appends a line of
\* quantity 1, so that products with different ids are never merged, whether
\* the id is carried in _id or in id; and updateQuantity never brings a
\* quantity to 0 or below.
C30_OneLinePerProduct ==
    /\ \A i, j \in DOMAIN cartItems :
          SameProductLine(cartItems[i], cartItems[j]) => i = j
    /\ \A product \in CartProducts :
          isValidCartItem(product) =>
             LET next == addToCart(cartItems, product)
                 lines == {i \in DOMAIN cartItems :
                              SameProductLine(cartItems[i], product)}
             IN  IF lines # {}
                 THEN /\ Len(next) = Len(cartItems)
                      /\ \A i \in DOMAIN cartItems :
                            next[i] = IF i \in lines
                                      THEN [cartItems[i] EXCEPT !.quantity = @ + 1]
                                      ELSE cartItems[i]
                 ELSE next = Append(cartItems, [product EXCEPT !.quantity = 1])
    /\ \A id \in LineIds, size \in {"M", "L"}, delta \in {-1, 1} :
          \A i \in DOMAIN cartItems :
              updateQuantity(cartItems, id, size, "thin", delta)[i].quantity > 0

====
